---- MODULE Spec2Model ----
(***************************************************************************)
(* lebar: a status-bar content generator (src/lebar.go, current version,   *)
(* lines 523-1083).  Two units run concurrently: the main goroutine        *)
(* (header, '[' and the ticker loop around runBlocks) and the click        *)
(* goroutine (handleClickEvents followed by os.Exit).                      *)
(*                                                                         *)
(* Strings are sequences of tokens.  A token is one character of data      *)
(* (" " is whitespace), one word of a command line, one template action    *)
(* ("{{.Text}}", "{{fail}}", the unterminated "{{") or one JSON payload.   *)
(***************************************************************************)
EXTENDS Integers, Sequences, FiniteSets, TLC

VARIABLES
  config,      \* the Config read at startup, immutable afterwards
  env,         \* the process environment (os.Getenv / os.Setenv)
  stdout,      \* every write to os.Stdout, in order
  exited,      \* os.Exit was called
  pcM,         \* position of the main goroutine
  first,       \* main: first
  tick,        \* number of ticks received from ticker.C
  bi,          \* runBlocks: index of the block in progress
  outputs,     \* runBlocks: outputs
  errlog,      \* main: the errors logged by logger.Printf("Error: ...")
  blockLog,    \* the result of every executeBlock call: tick, block, error
  pcD,         \* position of the click goroutine
  nread,       \* number of lines delivered by scanner.Scan
  cur,         \* handleClickEvents: raw, the line being processed
  routed,      \* handleClickEvents: ev, block and the verdict on the line
  deferred,    \* handleClickEvents: the stack of deferred environment restores
  restoring,   \* the entries the running deferred function has still to set
  childM,      \* the child process main waits for (cmd.Output in executeBlock)
  childD,      \* the child process the click goroutine waits for
  symArgs,     \* the optional arguments a template gives to Symbol
  symCall,     \* the last call of Symbol: its value argument and what it returned
  symPrev,     \* the call of Symbol before the last
  fmtCall,     \* the last call of executeBlock on a given child output
  intOfNaN     \* what int(x) yields for a NaN x on the machine the build runs on

\* the variables of the specifications of one function by itself
symVars == <<symArgs, symCall, symPrev, fmtCall, intOfNaN>>

vars == <<config, env, stdout, exited, pcM, first, tick, bi, outputs, errlog, blockLog,
          pcD, nread, cur, routed, deferred, restoring, childM, childD, symVars>>

mainVars == <<pcM, first, tick, bi, outputs, errlog, blockLog, childM>>
clickVars == <<pcD, nread, cur, routed, deferred, restoring, childD>>

(***************************************************************************)
(* Bounds of the model.                                                    *)
(***************************************************************************)
MaxTicks == 2
MaxLines == 3

(***************************************************************************)
(* String helpers (strings, bytes, unicode).                               *)
(***************************************************************************)
IsSpace(c) == c = " "

SetMin(S) == CHOOSE m \in S : \A n \in S : m <= n
SetMax(S) == CHOOSE m \in S : \A n \in S : m >= n

\* the positions of s whose element a trim function keeps
Kept(s, drop) == {i \in 1..Len(s) : s[i] \notin drop}
KeptOnly(s, stop) == {i \in 1..Len(s) : s[i] \in stop}

\* bytes.TrimLeftFunc: drop the longest prefix of positions that are not in keep
TrimLeftFunc(s, keep) == IF keep = {} THEN <<>> ELSE SubSeq(s, SetMin(keep), Len(s))

\* bytes.TrimRightFunc: drop the longest suffix of positions that are not in keep
TrimRightFunc(s, keep) == IF keep = {} THEN <<>> ELSE SubSeq(s, 1, SetMax(keep))

\* strings.TrimSpace
TrimSpace(s) ==
  LET t == TrimLeftFunc(s, Kept(s, {" "}))
  IN  TrimRightFunc(t, Kept(t, {" "}))

NotSpace(c) == ~IsSpace(c)

Fields(s) == SelectSeq(s, NotSpace)

RECURSIVE Concat(_)
Concat(ss) == IF ss = <<>> THEN <<>> ELSE Head(ss) \o Concat(Tail(ss))

(***************************************************************************)
(* Data model: Output, MouseEvent, Block, Config.                          *)
(***************************************************************************)
\* the string-typed fields of Output, in declaration order (reflect loop)
StringFields == <<"Name", "FullText", "ShortText", "Color", "Background", "Border", "Align", "Markup">>

\* the fields of Output that can hold text: the string-typed ones and MinWidth,
\* an interface{} that holds a number or a string
TextFields == {StringFields[i] : i \in 1..Len(StringFields)} \cup {"MinWidth"}

EmptyOutput == [f \in TextFields |-> <<>>]

NoMouseEvents == [b \in {} |-> [Interpreter |-> <<>>, Script |-> <<>>, Command |-> <<>>]]

MkBlock(name, interpreter, script, command, output, mouse) ==
  [Name |-> name, Interval |-> 1, Interpreter |-> interpreter, Script |-> script,
   Command |-> command, Output |-> output, MouseEvents |-> mouse]

\* a script block with a Left handler, a Middle handler whose interpreter is not
\* installed and an empty Right handler; its template is the captured text
BlockA ==
  MkBlock(<<"a">>, <<"sh", " ", "-c">>, <<"date">>, <<>>,
          [EmptyOutput EXCEPT !.FullText = <<"{{.Text}}">>],
          [b \in {"Left", "Middle", "Right"} |->
             IF b = "Left"
             THEN [Interpreter |-> <<>>, Script |-> <<"notify">>, Command |-> <<>>]
             ELSE IF b = "Middle"
             THEN [Interpreter |-> <<"nosuch">>, Script |-> <<"menu">>, Command |-> <<>>]
             ELSE [Interpreter |-> <<>>, Script |-> <<>>, Command |-> <<>>]])

\* a command block without handlers; min_width is a text
BlockB ==
  MkBlock(<<"b">>, <<>>, <<>>, <<"echo", " ", "4">>,
          [EmptyOutput EXCEPT !.FullText = <<"v", "{{.Text}}">>, !.Color = <<"#", "f">>,
                              !.MinWidth = <<"{{.Text}}">>],
          NoMouseEvents)

\* a block whose name is itself template text
BlockT ==
  MkBlock(<<"{{.Text}}">>, <<"sh">>, <<"uptime">>, <<>>,
          [EmptyOutput EXCEPT !.FullText = <<"up">>], NoMouseEvents)

\* a block whose output sets the name field; it has a command, and besides it a
\* script and an interpreter that is not installed
BlockN ==
  MkBlock(<<"n">>, <<"nosuch">>, <<"id">>, <<"echo", " ", "4">>,
          [EmptyOutput EXCEPT !.Name = <<"m">>, !.FullText = <<"{{.Text}}">>], NoMouseEvents)

\* a block whose short_text template fails when it is executed
BlockF ==
  MkBlock(<<"f">>, <<"sh">>, <<"id">>, <<>>,
          [EmptyOutput EXCEPT !.FullText = <<"{{.Text}}">>, !.ShortText = <<"{{fail}}">>],
          NoMouseEvents)

\* a block whose color template does not parse
BlockP ==
  MkBlock(<<"p">>, <<"sh">>, <<"id">>, <<>>,
          [EmptyOutput EXCEPT !.FullText = <<"{{.Text}}">>, !.Color = <<"{{">>],
          NoMouseEvents)

\* a script block without interpreter
BlockI ==
  MkBlock(<<"i">>, <<>>, <<"id">>, <<>>,
          [EmptyOutput EXCEPT !.FullText = <<"{{.Text}}">>], NoMouseEvents)

\* a script block whose interpreter is not installed
BlockX ==
  MkBlock(<<"x">>, <<"nosuch">>, <<"id">>, <<>>,
          [EmptyOutput EXCEPT !.FullText = <<"{{.Text}}">>], NoMouseEvents)

MkConfig(blocks) ==
  [StopSignal |-> 0, ContSignal |-> 0, Separator |-> <<"|">>, SymbolLists |-> <<>>,
   Blocks |-> blocks]

\* the blocks b and up with other interval values than 1
BlockB5 == [BlockB EXCEPT !.Interval = 5]
BlockT0 == [BlockT EXCEPT !.Interval = 0]

Configs ==
  { MkConfig(<<BlockA>>),
    MkConfig(<<BlockB, BlockT>>),
    MkConfig(<<BlockB5, BlockT0>>),
    MkConfig(<<BlockB, BlockN>>),
    MkConfig(<<BlockF, BlockB>>),
    MkConfig(<<BlockP>>),
    MkConfig(<<BlockB, BlockI>>),
    MkConfig(<<BlockX, BlockB>>) }

NBlocks == Len(config.Blocks)

\* a main that enables click events whatever the blocks declare
ClickEventsAlways(cfg) == TRUE

\* main: config.ClickEvents, true iff some block has a mouse handler
ClickEvents(cfg) == \E i \in 1..Len(cfg.Blocks) : DOMAIN cfg.Blocks[i].MouseEvents # {}

(***************************************************************************)
(* The process environment.                                                *)
(***************************************************************************)
Unset == "<unset>"
EnvKeys == <<"PATH", "BUTTON", "X", "Y">>
EnvKeySet == {EnvKeys[i] : i \in 1..Len(EnvKeys)}
StartupEnv == [k \in EnvKeySet |-> IF k = "PATH" THEN "/bin" ELSE Unset]

\* os.Environ: the "key=value" entries of the variables that are set
IsSetIn(e, k) == e[k] # Unset
Environ(e) ==
  LET keys == SelectSeq(EnvKeys, LAMBDA k : IsSetIn(e, k))
  IN  [i \in 1..Len(keys) |-> <<keys[i], e[keys[i]]>>]

Setenv(e, k, v) == [e EXCEPT ![k] = v]
Clearenv(e) == [k \in EnvKeySet |-> Unset]

(***************************************************************************)
(* Process Runner: executeScript, executeCommand.                          *)
(***************************************************************************)
Installed == {"sh", "echo"}

\* exec.LookPath: the program is searched in the directories of $PATH
LookPath(name, e) == e["PATH"] = "/bin" /\ name \in Installed

\* an executeScript that does not look the interpreter up before it runs it
ExecuteScriptStartNoLookPath(interpreter, script, e) ==
  IF interpreter = <<>> THEN "Interpreter not specified"
  ELSE IF Fields(interpreter) = <<>> THEN "Interpreter format is invalid"
  ELSE ""

\* executeScript up to cmd.Output: the error returned without a child, or ""
ExecuteScriptStart(interpreter, script, e) ==
  IF interpreter = <<>> THEN "Interpreter not specified"
  ELSE IF Fields(interpreter) = <<>> THEN "Interpreter format is invalid"
  ELSE IF ~LookPath(Fields(interpreter)[1], e) THEN "Interpreter does not exist"
  ELSE ""

\* executeCommand up to cmd.Output: the error returned without a child, or ""
ExecuteCommandStart(command, e) ==
  IF command = <<>> THEN "Command not specified"
  ELSE IF Fields(command) = <<>> THEN "Command format is invalid"
  ELSE IF ~LookPath(Fields(command)[1], e) THEN "executable file not found"
  ELSE ""

\* the argv of the child, one string per argument: the words of the interpreter
\* followed by the whole script, or the words of the command
Words(s) == [i \in 1..Len(Fields(s)) |-> <<Fields(s)[i]>>]
ScriptArgv(interpreter, script) == Words(interpreter) \o <<script>>
CommandArgv(command) == Words(command)

\* what a child process can do: print and exit 0, exit non-zero, outlive the deadline
ChildOutputs == {<<"4", "2", " ">>, <<" ", "{{.Text}}">>}
ChildResults ==
  {[kind |-> "ok", out |-> o] : o \in ChildOutputs}
    \cup {[kind |-> "exit status 1", out |-> <<>>], [kind |-> "signal: killed", out |-> <<>>]}

\* cmd.Output's error, "" when the child exited with status 0
OutputError(res) == IF res.kind = "ok" THEN "" ELSE res.kind

\* how a started child behaves against the deadline of its context: it exits by
\* itself in time; it is still running at the deadline and is killed; or it is
\* killed at the deadline while a process it started keeps the stdout pipe
\* open, so that cmd.Output (no WaitDelay set) keeps reading the pipe
ChildFates == {"exits", "stuck", "orphan"}

\* the results cmd.Output can return for a child, none while it cannot return
ResultsOf(child) ==
  IF child.fate = "exits" THEN {res \in ChildResults : res.kind # "signal: killed"}
  ELSE IF child.fate = "stuck" THEN {res \in ChildResults : res.kind = "signal: killed"}
  ELSE {}

(***************************************************************************)
(* Symbol Resolver: findSymbolList and the Symbol template function of     *)
(* executeBlock.  Numbers are integers and the arithmetic is exact:        *)
(* number / scale / 100 * (len - 1) is the rational                        *)
(* number * (len - 1) / (100 * scale).                                     *)
(***************************************************************************)
defaultSymbols == <<"blue", "green", "yellow", "brown", "red">>
defaultOver100Symbols == <<"warning", "collision", "sos">>

DigitChars == <<"0", "1", "2", "3", "4", "5", "6", "7", "8", "9">>
DigitSet == {DigitChars[i] : i \in 1..Len(DigitChars)}
DigitValue(c) == (CHOOSE i \in 1..Len(DigitChars) : DigitChars[i] = c) - 1

RECURSIVE DecimalValue(_)
DecimalValue(s) ==
  IF s = <<>> THEN 0
  ELSE 10 * DecimalValue(SubSeq(s, 1, Len(s) - 1)) + DigitValue(s[Len(s)])

\* +Inf, the value of the text "Inf": above every finite value of the model
\* times the length of every list
Infinity == 1000000

\* math.MinInt64, the "integer indefinite" of the amd64 conversion
MinInt == -1000000

\* int(x) for a NaN x: the Go specification leaves the result to the
\* implementation; amd64 yields math.MinInt64, arm64 yields 0
IntOfNaN == {MinInt, 0}

\* a parser that reads every text that is not a number as 0, like C's atof
ParseFloatLenient(s) ==
  LET neg == s # <<>> /\ s[1] = "-"
      body == IF neg THEN Tail(s) ELSE s
  IN  IF s = <<"Inf">> THEN [ok |-> TRUE, num |-> Infinity]
      ELSE IF body # <<>> /\ \A i \in 1..Len(body) : body[i] \in DigitSet
      THEN [ok |-> TRUE, num |-> IF neg THEN 0 - DecimalValue(body) ELSE DecimalValue(body)]
      ELSE [ok |-> TRUE, num |-> 0]

\* strconv.ParseFloat on the decimal integers, an optional '-' and digits, and
\* on the infinity "Inf"
ParseFloat(s) ==
  LET neg == s # <<>> /\ s[1] = "-"
      body == IF neg THEN Tail(s) ELSE s
  IN  IF s = <<"Inf">> THEN [ok |-> TRUE, num |-> Infinity]
      ELSE IF body # <<>> /\ \A i \in 1..Len(body) : body[i] \in DigitSet
      THEN [ok |-> TRUE, num |-> IF neg THEN 0 - DecimalValue(body) ELSE DecimalValue(body)]
      ELSE [ok |-> FALSE, num |-> 0]

\* strings.TrimSuffix(strVal, "%")
TrimSuffix(s, c) == IF s # <<>> /\ s[Len(s)] = c THEN SubSeq(s, 1, Len(s) - 1) ELSE s

\* int(x) for the float x = num / den, den > 0: truncation toward zero
TruncToInt(num, den) == IF num >= 0 THEN num \div den ELSE 0 - ((0 - num) \div den)

\* findSymbolList: the symbols of the first list of that name; found is false for nil
FindSymbolList(cfg, name) ==
  LET hits == {i \in 1..Len(cfg.SymbolLists) : cfg.SymbolLists[i].Name = name}
  IN  IF hits = {} THEN [found |-> FALSE, symbols |-> <<>>]
      ELSE [found |-> TRUE, symbols |-> cfg.SymbolLists[SetMin(hits)].Symbols]

\* the arguments a template passes to Symbol, by dynamic type
StringArg(s) == [type |-> "string", str |-> s, list |-> <<>>, num |-> 0]
ListArg(l) == [type |-> "[]string", str |-> <<>>, list |-> l, num |-> 0]
FloatArg(n) == [type |-> "float64", str |-> <<>>, list |-> <<>>, num |-> n]
IntArg(n) == [type |-> "int", str |-> <<>>, list |-> <<>>, num |-> n]
AnyListArg(l) == [type |-> "[]interface {}", str |-> <<>>, list |-> l, num |-> 0]

\* symbolList after "Parse optional arguments" and "Validate lists"
SymbolListOf(args, cfg) ==
  LET named == FindSymbolList(cfg, args[2].str)
      chosen == IF Len(args) > 1 /\ args[2].type = "[]string" /\ Len(args[2].list) > 0
                THEN args[2].list
                ELSE IF Len(args) > 1 /\ args[2].type = "string" /\ named.found
                THEN named.symbols
                ELSE defaultSymbols
  IN  IF Len(chosen) = 0 THEN defaultSymbols ELSE chosen

\* over100SymbolList after "Parse optional arguments" and "Validate lists"
Over100ListOf(args, cfg) ==
  LET named == FindSymbolList(cfg, args[3].str)
      chosen == IF Len(args) > 2 /\ args[3].type = "[]string" /\ Len(args[3].list) > 0
                THEN args[3].list
                ELSE IF Len(args) > 2 /\ args[3].type = "string" /\ named.found
                THEN named.symbols
                ELSE defaultOver100Symbols
  IN  IF Len(chosen) = 0 THEN defaultOver100Symbols ELSE chosen

\* scale after "Parse optional arguments"
ScaleOf(args, cfg) ==
  LET third == IF Len(args) > 2 /\ args[3].type = "string"
                    /\ ~FindSymbolList(cfg, args[3].str).found
                    /\ ParseFloat(args[3].str).ok /\ ParseFloat(args[3].str).num > 0
               THEN ParseFloat(args[3].str).num
               ELSE IF Len(args) > 2 /\ args[3].type = "float64" /\ args[3].num > 0
               THEN args[3].num
               ELSE 1
  IN  IF Len(args) > 3 /\ args[4].type = "float64" /\ args[4].num > 0
      THEN args[4].num
      ELSE third

\* an index scaled by the length of the list instead of its last position
SymbolIndexByLen(number, scale, len) == TruncToInt(number * len, 100 * scale)

\* index := int((scaledNumber / 100) * float64(len(symbolList)-1))
SymbolIndex(number, scale, len) == TruncToInt(number * (len - 1), 100 * scale)

\* index := int(math.Min(float64(len-1), (scaledNumber/100)*float64(len-1)));
\* +Inf times 0 is NaN, and math.Min of a number and NaN is NaN
Over100Index(number, scale, len) ==
  IF number = Infinity /\ len - 1 = 0
  THEN intOfNaN
  ELSE IF number * (len - 1) >= (len - 1) * 100 * scale
  THEN len - 1
  ELSE TruncToInt(number * (len - 1), 100 * scale)

\* list[index]: a run-time panic when the index is out of range
IndexList(list, index) ==
  IF index >= 0 /\ index < Len(list)
  THEN [panic |-> FALSE, glyph |-> list[index + 1]]
  ELSE [panic |-> TRUE, glyph |-> ""]

\* the Symbol function: what it returns, or that it panics, with the values it
\* computed on the way
Symbol(args, cfg) ==
  LET parsed == IF Len(args) < 1 THEN [ok |-> FALSE, num |-> 0]
                ELSE ParseFloat(TrimSpace(TrimSuffix(args[1].str, "%")))
      symbolList == SymbolListOf(args, cfg)
      over100SymbolList == Over100ListOf(args, cfg)
      scale == ScaleOf(args, cfg)
      low == parsed.num <= 100 * scale
      index == IF low THEN SymbolIndex(parsed.num, scale, Len(symbolList))
               ELSE Over100Index(parsed.num, scale, Len(over100SymbolList))
      picked == IF low THEN IndexList(symbolList, index)
                ELSE IndexList(over100SymbolList, index)
      base == [panic |-> FALSE, glyph |-> "", parsed |-> parsed.ok, number |-> parsed.num,
               symbols |-> symbolList, over |-> over100SymbolList, scale |-> scale,
               index |-> 0]
  IN  IF Len(args) < 1 THEN base
      ELSE IF ~parsed.ok THEN [base EXCEPT !.glyph = "?"]
      ELSE [base EXCEPT !.panic = picked.panic, !.glyph = picked.glyph, !.index = index]

\* no call of Symbol yet
NoCall == [called |-> FALSE, value |-> <<>>, out |-> Symbol(<<>>, [SymbolLists |-> <<>>])]

\* the symbol lists of a configuration: a theme, an overflow theme, and a list
\* without symbols
ThemeLists ==
  <<[Name |-> <<"battery">>, Symbols |-> <<"b0", "b1", "b2", "b3">>],
    [Name |-> <<"over">>, Symbols |-> <<"o0", "o1">>],
    [Name |-> <<"single">>, Symbols |-> <<"s0">>],
    [Name |-> <<"empty">>, Symbols |-> <<>>]>>

\* the values a block's text gives to Symbol
SymbolValues ==
  {<<"0">>, <<"5", "0">>, <<"1", "0", "0">>,
   <<"1", "0", "1">>, <<"2", "5", "0">>, <<"-", "1">>, <<"-", "5", "0">>,
   <<"5", "0", "%">>, <<" ", "7", "5", " ">>, <<"5", "0", "%", " ">>,
   <<"a", "b", "c">>, <<>>, <<"Inf">>}

\* the second argument of Symbol: a []string, a list made by sprig's list
\* function ([]interface{}), or a string
SymbolListArgs ==
  {ListArg(<<>>), ListArg(<<"lo", "mid", "hi">>), ListArg(<<"one">>),
   AnyListArg(<<"lo", "mid", "hi">>),
   StringArg(<<"battery">>), StringArg(<<"empty">>), StringArg(<<"missing">>)}

\* the third argument of Symbol: a list, a list name, or a scale
OverflowArgs ==
  {ListArg(<<>>), ListArg(<<"x0", "x1">>), AnyListArg(<<"x0", "x1">>),
   StringArg(<<"over">>), StringArg(<<"single">>), StringArg(<<"empty">>),
   StringArg(<<"missing">>), StringArg(<<"2">>), FloatArg(2), IntArg(2)}

\* the fourth argument of Symbol: 2.0, 2, 0.0
ScaleArgs == {FloatArg(2), IntArg(2), FloatArg(0)}

\* the optional arguments of a {{Symbol ...}} action, none to three of them
SymbolTails ==
  {<<>>}
    \cup {<<l>> : l \in SymbolListArgs}
    \cup {<<l, o>> : l \in SymbolListArgs, o \in OverflowArgs}
    \cup {<<l, o, sc>> : l \in SymbolListArgs, o \in OverflowArgs, sc \in ScaleArgs}

\* the action {{Symbol ...}} in a template: text/template turns a panic of the
\* called function into an execution error
SymbolAction(args, cfg) ==
  LET r == Symbol(args, cfg)
  IN  IF r.panic THEN [err |-> "failed to execute template", text |-> <<>>]
      ELSE [err |-> "", text |-> IF r.glyph = "" THEN <<>> ELSE <<r.glyph>>]

(***************************************************************************)
(* Format Engine: the second half of executeBlock.                         *)
(***************************************************************************)
\* template.Parse fails on an action that is not closed
TemplateParses(t) == \A i \in 1..Len(t) : t[i] # "{{"
\* tmpl.Execute fails when an action fails
TemplateExecutes(t) == \A i \in 1..Len(t) : t[i] # "{{fail}}"
\* a template engine that executes the inserted text as a template of its own
RenderedNested(t, text) ==
  Concat([i \in 1..Len(t) |->
            IF t[i] = "{{.Text}}"
            THEN SelectSeq(text, LAMBDA c : c \notin {"{{.Text}}", "{{fail}}", "{{"})
            ELSE <<t[i]>>])

\* the text an executed template writes: actions replaced, everything else copied
Rendered(t, text) ==
  Concat([i \in 1..Len(t) |-> IF t[i] = "{{.Text}}" THEN text ELSE <<t[i]>>])

\* the error of one field of the reflect loop, "" if none
FieldError(t) ==
  IF t = <<>> THEN ""
  ELSE IF ~TemplateParses(t) THEN "failed to parse template"
  ELSE IF ~TemplateExecutes(t) THEN "failed to execute template"
  ELSE ""

\* output := block.Output; output.Name = block.Name
WithName(block) == [block.Output EXCEPT !.Name = block.Name]

\* an executeBlock that fills a field without template with the captured text
RenderBlockDefaultsToText(block, outputText) ==
  LET text == TrimSpace(outputText)
      output == WithName(block)
      bad == {i \in 1..Len(StringFields) : FieldError(output[StringFields[i]]) # ""}
  IN  IF block.Output.Name # <<>>
      THEN [err |-> "User should not specify the 'name' field in the output",
            output |-> EmptyOutput]
      ELSE IF bad # {}
      THEN [err |-> FieldError(output[StringFields[SetMin(bad)]]), output |-> EmptyOutput]
      ELSE [err |-> "",
            output |-> [f \in DOMAIN output |->
                          IF \E i \in 1..Len(StringFields) : StringFields[i] = f
                          THEN IF output[f] = <<>> THEN text ELSE Rendered(output[f], text)
                          ELSE output[f]]]

\* executeBlock after the child returned outputText: [err, output]
RenderBlock(block, outputText) ==
  LET text == TrimSpace(outputText)
      output == WithName(block)
      bad == {i \in 1..Len(StringFields) : FieldError(output[StringFields[i]]) # ""}
  IN  IF block.Output.Name # <<>>
      THEN [err |-> "User should not specify the 'name' field in the output",
            output |-> EmptyOutput]
      ELSE IF bad # {}
      THEN [err |-> FieldError(output[StringFields[SetMin(bad)]]), output |-> EmptyOutput]
      ELSE [err |-> "",
            output |-> [f \in DOMAIN output |->
                          IF \E i \in 1..Len(StringFields) : StringFields[i] = f
                          THEN IF output[f] = <<>> THEN <<>> ELSE Rendered(output[f], text)
                          ELSE output[f]]]

\* no call of executeBlock yet
NoFmtCall == [called |-> FALSE, blk |-> 0, text |-> <<>>, err |-> "", output |-> EmptyOutput]

\* executeBlock before the child: the error returned without a child, or ""
BlockStartError(block, e) ==
  IF block.Command # <<>>
  THEN ExecuteCommandStart(block.Command, e)
  ELSE ExecuteScriptStart(block.Interpreter, block.Script, e)

\* an executeBlock that prefers the script of a block to its command
BlockArgvScriptFirst(block) ==
  IF block.Script # <<>> THEN ScriptArgv(block.Interpreter, block.Script)
  ELSE CommandArgv(block.Command)

BlockArgv(block) ==
  IF block.Command # <<>> THEN CommandArgv(block.Command)
  ELSE ScriptArgv(block.Interpreter, block.Script)

(***************************************************************************)
(* Click events: I3barClickEvent, eventButton.String, NewEventFromRaw,     *)
(* findBlockByName.                                                        *)
(***************************************************************************)
\* the JSON object bodies a line can carry that decode into an I3barClickEvent
EventTokens == {"a-left", "a-left2", "a-middle", "a-right", "a-other", "b-left", "z-left"}

EventOf(tok) ==
  CASE tok = "a-left"   -> [Name |-> <<"a">>, Button |-> 1, X |-> 3, Y |-> 4]
    [] tok = "a-left2"  -> [Name |-> <<"a">>, Button |-> 1, X |-> 5, Y |-> 6]
    [] tok = "a-middle" -> [Name |-> <<"a">>, Button |-> 2, X |-> 3, Y |-> 4]
    [] tok = "a-right"  -> [Name |-> <<"a">>, Button |-> 3, X |-> 3, Y |-> 4]
    [] tok = "a-other"  -> [Name |-> <<"a">>, Button |-> 9, X |-> 3, Y |-> 4]
    [] tok = "b-left"   -> [Name |-> <<"b">>, Button |-> 1, X |-> 3, Y |-> 4]
    [] tok = "z-left"   -> [Name |-> <<"z">>, Button |-> 1, X |-> 3, Y |-> 4]

ZeroEvent == [Name |-> <<>>, Button |-> 0, X |-> 0, Y |-> 0]

\* json.Unmarshal into a new I3barClickEvent: [err, ev]
Unmarshal(raw) ==
  IF Len(raw) = 3 /\ raw[1] = "{" /\ raw[3] = "}" /\ raw[2] \in EventTokens
  THEN [err |-> "", ev |-> EventOf(raw[2])]
  ELSE IF raw = <<"{", "}">>
  THEN [err |-> "", ev |-> ZeroEvent]
  ELSE [err |-> "failed to parse click event", ev |-> ZeroEvent]

\* a pre-processing that only cuts what follows the last '}'
PreprocessRight(raw) == TrimRightFunc(raw, KeptOnly(raw, {"}"}))

\* the three trims of NewEventFromRaw: leading commas and whitespace, then
\* everything before the first '{', then everything after the last '}'
Preprocess(raw) ==
  LET r1 == TrimLeftFunc(raw, Kept(raw, {",", " "}))
      r2 == TrimLeftFunc(r1, KeptOnly(r1, {"{"}))
  IN  TrimRightFunc(r2, KeptOnly(r2, {"}"}))

NewEventFromRaw(raw) == Unmarshal(Preprocess(raw))

\* eventButton.String
ButtonString(b) ==
  CASE b = 1 -> "Left"
    [] b = 2 -> "Middle"
    [] b = 3 -> "Right"
    [] b = 4 -> "ScrollUp"
    [] b = 5 -> "ScrollDown"
    [] OTHER -> ""

\* a lookup that falls back to the first block
FindBlockByNameOrFirst(cfg, name) ==
  LET hits == {i \in 1..Len(cfg.Blocks) : cfg.Blocks[i].Name = name}
  IN  IF hits = {} THEN 1 ELSE SetMin(hits)

\* a lookup that keeps the last block with that name
FindBlockByNameLast(cfg, name) ==
  LET hits == {i \in 1..Len(cfg.Blocks) : cfg.Blocks[i].Name = name}
  IN  IF hits = {} THEN 0 ELSE SetMax(hits)

\* findBlockByName: the index of the first block with that name, 0 for nil
FindBlockByName(cfg, name) ==
  LET hits == {i \in 1..Len(cfg.Blocks) : cfg.Blocks[i].Name = name}
  IN  IF hits = {} THEN 0 ELSE SetMin(hits)

\* block.MouseEvents[eventName]: exists
HandlerExists(block, eventName) == eventName \in DOMAIN block.MouseEvents

\* the lines the host can send
Lines ==
  { <<>>, <<" ">>, <<",">>, <<"x">>,
    <<"{", "bad-syntax", "}">>,
    <<"{", "a-left", "}">>,
    <<",", "{", "a-left2", "}">>,
    <<"{", "a-middle", "}">>,
    <<"{", "a-right", "}">>,
    <<"{", "a-other", "}">>,
    <<"{", "b-left", "}">>,
    <<"{", "z-left", "}">> }

\* the body of the for loop of handleClickEvents up to the handler invocation:
\* why the record is dropped, or "run" with the block and the event
Route(cfg, raw) ==
  LET parsed == NewEventFromRaw(raw)
      ev == parsed.ev
      blk == FindBlockByName(cfg, ev.Name)
      none == [verdict |-> "", blk |-> 0, ev |-> ZeroEvent]
  IN  IF TrimSpace(raw) = <<>> THEN [none EXCEPT !.verdict = "Skipping empty line"]
      ELSE IF raw = <<",">> THEN [none EXCEPT !.verdict = "Skipping comma"]
      ELSE IF parsed.err # "" THEN [none EXCEPT !.verdict = "Error parsing click event"]
      ELSE IF blk = 0 THEN [none EXCEPT !.verdict = "No block found", !.ev = ev]
      ELSE IF ~HandlerExists(cfg.Blocks[blk], ButtonString(ev.Button))
      THEN [verdict |-> "No mouse event handler", blk |-> blk, ev |-> ev]
      ELSE IF LET h == cfg.Blocks[blk].MouseEvents[ButtonString(ev.Button)]
              IN  h.Script = <<>> /\ h.Command = <<>>
      THEN [verdict |-> "No mouse event script or command", blk |-> blk, ev |-> ev]
      ELSE [verdict |-> "run", blk |-> blk, ev |-> ev]

\* ev and block before the first record is routed
NoRoute == [verdict |-> "", blk |-> 0, ev |-> ZeroEvent]

\* a dispatcher that prefers the block's interpreter to the handler's
HandlerInterpreterOfBlock(block, h) ==
  IF block.Interpreter = <<>> THEN h.Interpreter ELSE block.Interpreter

\* interpreter := mouseEvent.Interpreter, the block's when empty
HandlerInterpreter(block, h) == IF h.Interpreter = <<>> THEN block.Interpreter ELSE h.Interpreter

HandlerStartError(block, h, e) ==
  IF h.Command # <<>>
  THEN ExecuteCommandStart(h.Command, e)
  ELSE ExecuteScriptStart(HandlerInterpreter(block, h), h.Script, e)

HandlerArgv(block, h) ==
  IF h.Command # <<>> THEN CommandArgv(h.Command)
  ELSE ScriptArgv(HandlerInterpreter(block, h), h.Script)

NoChild == [running |-> FALSE, blk |-> 0, argv |-> <<>>, env |-> StartupEnv, fate |-> "exits"]

(***************************************************************************)
(* Initial state.                                                          *)
(***************************************************************************)
\* main before its first statement that writes, the click goroutine not started
Startup ==
  /\ env = StartupEnv
  /\ stdout = <<>>
  /\ exited = FALSE
  /\ pcM = "header"
  /\ first = TRUE
  /\ tick = 0
  /\ bi = 0
  /\ outputs = <<>>
  /\ errlog = <<>>
  /\ blockLog = <<>>
  /\ pcD = "off"
  /\ nread = 0
  /\ cur = <<>>
  /\ routed = NoRoute
  /\ deferred = <<>>
  /\ restoring = <<>>
  /\ childM = NoChild
  /\ childD = NoChild

Init ==
  /\ config \in Configs
  /\ Startup
  /\ symArgs = <<>>
  /\ symCall = NoCall
  /\ symPrev = NoCall
  /\ fmtCall = NoFmtCall
  /\ intOfNaN = 0

\* one write to os.Stdout
Write(kind, who, items) ==
  [kind |-> kind, who |-> who, tick |-> tick, flag |-> ClickEvents(config), items |-> items]

\* cmd.Start: the child gets argv and a copy of the environment of that moment
Spawn(blk, argv, fate) ==
  [running |-> TRUE, blk |-> blk, argv |-> argv, env |-> env, fate |-> fate]

(***************************************************************************)
(* main.                                                                   *)
(***************************************************************************)
\* a main that starts the click goroutine before the header is complete
WriteHeaderAfterGo ==
  /\ ~exited /\ pcM = "header"
  /\ stdout' = Append(stdout, Write("header", "main", <<>>))
  /\ pcD' = IF ClickEvents(config) THEN "initial" ELSE pcD
  /\ pcM' = "open"
  /\ UNCHANGED <<config, env, exited, first, tick, bi, outputs, errlog, blockLog, childM,
                 nread, cur, routed, deferred, restoring, childD>>
  /\ UNCHANGED symVars

\* fmt.Printf("%s\n", headerJSON)
WriteHeader ==
  /\ ~exited /\ pcM = "header"
  /\ stdout' = Append(stdout, Write("header", "main", <<>>))
  /\ pcM' = "open"
  /\ UNCHANGED <<config, env, exited, first, tick, bi, outputs, errlog, blockLog, childM>>
  /\ UNCHANGED clickVars
  /\ UNCHANGED symVars

\* fmt.Println("[")
WriteOpen ==
  /\ ~exited /\ pcM = "open"
  /\ stdout' = Append(stdout, Write("[", "main", <<>>))
  /\ pcM' = "go"
  /\ UNCHANGED <<config, env, exited, first, tick, bi, outputs, errlog, blockLog, childM>>
  /\ UNCHANGED clickVars
  /\ UNCHANGED symVars

\* if config.ClickEvents { go func() {...}() }; ticker := time.NewTicker(...)
StartDispatcher ==
  /\ ~exited /\ pcM = "go"
  /\ pcD' = IF ClickEvents(config) THEN "initial" ELSE pcD
  /\ pcM' = "ticker"
  /\ UNCHANGED <<config, env, stdout, exited, first, tick, bi, outputs, errlog, blockLog,
                 childM, childD, nread, cur, routed, deferred, restoring>>
  /\ UNCHANGED symVars

\* a ticker loop that runs the blocks only at the multiples of the first
\* block's interval
TickAtInterval ==
  /\ ~exited /\ pcM = "ticker" /\ tick < MaxTicks
  /\ tick' = tick + 1
  /\ outputs' = <<>>
  /\ LET due == NBlocks # 0 /\ config.Blocks[1].Interval # 0
                /\ tick' % config.Blocks[1].Interval = 0
     IN  IF due THEN bi' = 1 /\ pcM' = "block"
         ELSE bi' = 0 /\ pcM' = "ticker"
  /\ UNCHANGED <<config, env, stdout, exited, first, errlog, blockLog, childM>>
  /\ UNCHANGED clickVars
  /\ UNCHANGED symVars

\* for range ticker.C: a tick arrives, runBlocks starts
Tick ==
  /\ ~exited /\ pcM = "ticker" /\ tick < MaxTicks
  /\ tick' = tick + 1
  /\ outputs' = <<>>
  /\ bi' = 1
  /\ pcM' = IF NBlocks = 0 THEN "emit" ELSE "block"
  /\ UNCHANGED <<config, env, stdout, exited, first, errlog, blockLog, childM>>
  /\ UNCHANGED clickVars
  /\ UNCHANGED symVars

\* a runBlocks that lets a block killed at its deadline through
RunBlocksAbortsExceptKilled(err) == err # "" /\ err # "signal: killed"

\* runBlocks: if err != nil { return nil, err }
RunBlocksAborts(err) == err # ""

\* an append at the wrong end
PrependOutput(outs, output) == <<output>> \o outs

\* outputs = append(outputs, output)
AppendOutput(outs, output) == Append(outs, output)

\* a main that leaves the ticker loop at the first error of runBlocks
AfterBlockStopOnError(err, output) ==
  /\ blockLog' = Append(blockLog, [tick |-> tick, blk |-> bi, err |-> err])
  /\ IF RunBlocksAborts(err)
     THEN /\ errlog' = Append(errlog, [tick |-> tick, err |-> err])
          /\ outputs' = <<>>
          /\ pcM' = "stopped"
          /\ bi' = 0
     ELSE /\ errlog' = errlog
          /\ outputs' = AppendOutput(outputs, output)
          /\ IF bi = NBlocks
             THEN pcM' = "emit" /\ bi' = 0
             ELSE pcM' = "block" /\ bi' = bi + 1

\* a runBlocks that logs the error of a block and goes on with the next one
AfterBlockLogAndGoOn(err, output) ==
  /\ blockLog' = Append(blockLog, [tick |-> tick, blk |-> bi, err |-> err])
  /\ errlog' = IF RunBlocksAborts(err)
               THEN Append(errlog, [tick |-> tick, err |-> err]) ELSE errlog
  /\ outputs' = IF RunBlocksAborts(err) THEN outputs ELSE AppendOutput(outputs, output)
  /\ IF bi = NBlocks
     THEN /\ bi' = 0
          /\ pcM' = IF Len(outputs') = NBlocks THEN "emit" ELSE "ticker"
     ELSE pcM' = "block" /\ bi' = bi + 1

\* a runBlocks that calls a failed block again
AfterBlockRetry(err, output) ==
  /\ blockLog' = Append(blockLog, [tick |-> tick, blk |-> bi, err |-> err])
  /\ IF RunBlocksAborts(err)
     THEN /\ errlog' = errlog
          /\ outputs' = outputs
          /\ pcM' = "block"
          /\ bi' = bi
     ELSE /\ errlog' = errlog
          /\ outputs' = AppendOutput(outputs, output)
          /\ IF bi = NBlocks
             THEN pcM' = "emit" /\ bi' = 0
             ELSE pcM' = "block" /\ bi' = bi + 1

\* what the loop of main does with the result of one executeBlock call
AfterBlock(err, output) ==
  /\ blockLog' = Append(blockLog, [tick |-> tick, blk |-> bi, err |-> err])
  /\ IF RunBlocksAborts(err)
     THEN /\ errlog' = Append(errlog, [tick |-> tick, err |-> err])
          /\ outputs' = <<>>
          /\ pcM' = "ticker"
          /\ bi' = 0
     ELSE /\ errlog' = errlog
          /\ outputs' = AppendOutput(outputs, output)
          /\ IF bi = NBlocks
             THEN pcM' = "emit" /\ bi' = 0
             ELSE pcM' = "block" /\ bi' = bi + 1

\* executeBlock up to the start of the child process
StartBlock ==
  /\ ~exited /\ pcM = "block"
  /\ LET block == config.Blocks[bi]
         err == BlockStartError(block, env)
     IN  IF err # ""
         THEN AfterBlock(err, EmptyOutput) /\ childM' = childM
         ELSE /\ \E fate \in ChildFates : childM' = Spawn(bi, BlockArgv(block), fate)
              /\ pcM' = "child"
              /\ UNCHANGED <<bi, outputs, errlog, blockLog>>
  /\ UNCHANGED <<config, env, stdout, exited, first, tick>>
  /\ UNCHANGED clickVars
  /\ UNCHANGED symVars

\* cmd.Output returns: the child exited or was killed at the deadline;
\* executeBlock renders its output
FinishBlock ==
  /\ ~exited /\ pcM = "child"
  /\ \E res \in ResultsOf(childM) :
       \E cmdOutput \in {TrimSpace(res.out)} :
         LET r == RenderBlock(config.Blocks[bi], cmdOutput)
         IN  IF OutputError(res) # ""
             THEN AfterBlock(OutputError(res), EmptyOutput)
             ELSE AfterBlock(r.err, r.output)
  /\ childM' = NoChild
  /\ UNCHANGED <<config, env, stdout, exited, first, tick>>
  /\ UNCHANGED clickVars
  /\ UNCHANGED symVars

\* a separator decided by the tick count instead of the first flag
NeedsCommaByTick(f) == tick > 1

\* if !first { fmt.Print(",") }
NeedsComma(f) == ~f

\* if !first { fmt.Print(",") }; first = false
WriteComma ==
  /\ ~exited /\ pcM = "emit"
  /\ stdout' = IF NeedsComma(first) THEN Append(stdout, Write(",", "main", <<>>)) ELSE stdout
  /\ first' = FALSE
  /\ pcM' = "snapshot"
  /\ UNCHANGED <<config, env, exited, tick, bi, outputs, errlog, blockLog, childM>>
  /\ UNCHANGED clickVars
  /\ UNCHANGED symVars

\* jsonOutput, _ := json.Marshal(outputs); fmt.Printf("%s", jsonOutput)
\* The write is kept as the list of items (the string fields of each Output);
\* Marshal of these fields does not fail.
WriteSnapshot ==
  /\ ~exited /\ pcM = "snapshot"
  /\ stdout' = Append(stdout, Write("snapshot", "main", outputs))
  /\ outputs' = <<>>
  /\ pcM' = "ticker"
  /\ UNCHANGED <<config, env, exited, first, tick, bi, errlog, blockLog, childM>>
  /\ UNCHANGED clickVars
  /\ UNCHANGED symVars

(***************************************************************************)
(* The click goroutine: handleClickEvents, then "Triggered" and os.Exit.   *)
(***************************************************************************)
unchangedByClick == <<config, exited, pcM, first, tick, bi, outputs, errlog, blockLog, childM>>

\* if scanner.Scan() { log the initial line }
\* scanner.Err() after the loop: nil at end of stream, or the read error
ScanErrors == {"", "bufio.Scanner: token too long"}

\* if err := scanner.Err(); err != nil { logger.Printf("Error reading stdin") }
\* No record is in hand when the loop is over.
AfterScan(err) ==
  IF err = "" THEN NoRoute ELSE [NoRoute EXCEPT !.verdict = "Error reading stdin"]

\* a loop that goes on to the next line after a read error
AfterScanEndGoesOn(err) == IF err = "" THEN "return" ELSE "scan"

\* where handleClickEvents goes when Scan returns false
AfterScanEnd(err) == "return"

\* a first read that handles its line like the loop does
InitialScanRoutes ==
  /\ ~exited /\ pcD = "initial"
  /\ \/ /\ nread < MaxLines
        /\ \E line \in Lines :
             /\ cur' = line
             /\ routed' = Route(config, line)
             /\ pcD' = IF Route(config, line).verdict = "run" THEN "environ" ELSE "scan"
        /\ nread' = nread + 1
     \/ /\ pcD' = "return"
        /\ UNCHANGED <<nread, cur, routed>>
  /\ UNCHANGED <<env, stdout, deferred, restoring, childD>>
  /\ UNCHANGED unchangedByClick
  /\ UNCHANGED symVars

InitialScan ==
  /\ ~exited /\ pcD = "initial"
  /\ \/ /\ nread < MaxLines
        /\ \E line \in Lines : cur' = line
        /\ nread' = nread + 1
        /\ pcD' = "scan"
        /\ routed' = routed
     \/ /\ pcD' = "return"
        /\ \E err \in ScanErrors : routed' = AfterScan(err)
        /\ UNCHANGED <<nread, cur>>
  /\ UNCHANGED <<env, stdout, deferred, restoring, childD>>
  /\ UNCHANGED unchangedByClick
  /\ UNCHANGED symVars

\* a loop that gives up at the first record it cannot parse
AfterRouteStopOnParseError(verdict) ==
  IF verdict = "run" THEN "environ"
  ELSE IF verdict = "Error parsing click event" THEN "return"
  ELSE "scan"

\* where the loop goes after the routing of a record
AfterRoute(verdict) == IF verdict = "run" THEN "environ" ELSE "scan"

\* a loop that reads the next line while the handler of the last one still runs
ScanLineAsync ==
  /\ ~exited /\ pcD \in {"scan", "child"} /\ nread < MaxLines
  /\ \E line \in Lines :
       /\ cur' = line
       /\ routed' = Route(config, line)
       /\ pcD' = AfterRoute(Route(config, line).verdict)
  /\ nread' = nread + 1
  /\ UNCHANGED <<env, stdout, deferred, restoring, childD>>
  /\ UNCHANGED unchangedByClick
  /\ UNCHANGED symVars

\* for scanner.Scan(): the next line is read and routed
ScanLine ==
  /\ ~exited /\ pcD = "scan" /\ nread < MaxLines
  /\ \E line \in Lines :
       /\ cur' = line
       /\ routed' = Route(config, line)
       /\ pcD' = AfterRoute(Route(config, line).verdict)
  /\ nread' = nread + 1
  /\ UNCHANGED <<env, stdout, deferred, restoring, childD>>
  /\ UNCHANGED unchangedByClick
  /\ UNCHANGED symVars

\* scanner.Scan() returns false: end of stream, or a read error such as
\* bufio.ErrTooLong for a line above the scanner's token limit; such a line is
\* never delivered to the loop, and the scanner holds no token afterwards
ScanEnd ==
  /\ ~exited /\ pcD = "scan"
  /\ \E err \in ScanErrors :
       /\ routed' = AfterScan(err)
       /\ pcD' = AfterScanEnd(err)
  /\ cur' = <<>>
  /\ UNCHANGED <<env, stdout, nread, deferred, restoring, childD>>
  /\ UNCHANGED unchangedByClick
  /\ UNCHANGED symVars

\* oldEnv := os.Environ(), kept by the deferred function
SaveEnviron ==
  /\ ~exited /\ pcD = "environ"
  /\ deferred' = <<Environ(env)>> \o deferred
  /\ pcD' = "setenv BUTTON"
  /\ UNCHANGED <<env, stdout, nread, cur, routed, restoring, childD>>
  /\ UNCHANGED unchangedByClick
  /\ UNCHANGED symVars

\* a dispatcher that sets the variables of an event only where none is set yet
SetEventEnvIfUnset ==
  /\ ~exited
  /\ LET ev == routed.ev
         put(k, v) == IF env[k] = Unset THEN Setenv(env, k, v) ELSE env
     IN  \/ /\ pcD = "setenv BUTTON"
            /\ env' = put("BUTTON", ButtonString(ev.Button))
            /\ pcD' = "setenv X"
         \/ /\ pcD = "setenv X"
            /\ env' = put("X", ToString(ev.X))
            /\ pcD' = "setenv Y"
         \/ /\ pcD = "setenv Y"
            /\ env' = put("Y", ToString(ev.Y))
            /\ pcD' = "exec"
  /\ UNCHANGED <<stdout, nread, cur, routed, deferred, restoring, childD>>
  /\ UNCHANGED unchangedByClick
  /\ UNCHANGED symVars

\* os.Setenv("BUTTON", ...); os.Setenv("X", ...); os.Setenv("Y", ...)
SetEventEnv ==
  /\ ~exited
  /\ LET ev == routed.ev
     IN  \/ /\ pcD = "setenv BUTTON"
            /\ env' = Setenv(env, "BUTTON", ButtonString(ev.Button))
            /\ pcD' = "setenv X"
         \/ /\ pcD = "setenv X"
            /\ env' = Setenv(env, "X", ToString(ev.X))
            /\ pcD' = "setenv Y"
         \/ /\ pcD = "setenv Y"
            /\ env' = Setenv(env, "Y", ToString(ev.Y))
            /\ pcD' = "exec"
  /\ UNCHANGED <<stdout, nread, cur, routed, deferred, restoring, childD>>
  /\ UNCHANGED unchangedByClick
  /\ UNCHANGED symVars

\* executeCommand / executeScript for the handler, up to the start of the child
StartHandler ==
  /\ ~exited /\ pcD = "exec"
  /\ LET r == routed
         block == config.Blocks[r.blk]
         h == block.MouseEvents[ButtonString(r.ev.Button)]
     IN  IF HandlerStartError(block, h, env) # ""
         THEN pcD' = "scan" /\ childD' = childD
         ELSE /\ \E fate \in ChildFates :
                   childD' = Spawn(r.blk, HandlerArgv(block, h), fate)
              /\ pcD' = "child"
  /\ UNCHANGED <<env, stdout, nread, cur, routed, deferred, restoring>>
  /\ UNCHANGED unchangedByClick
  /\ UNCHANGED symVars

\* a dispatcher that prints what the handler returned
FinishHandlerPrintsResult ==
  /\ ~exited /\ pcD = "child"
  /\ \E res \in ResultsOf(childD) :
       /\ pcD' = "scan"
       /\ stdout' = Append(stdout, Write("handler", "click", <<res.out>>))
  /\ childD' = NoChild
  /\ UNCHANGED <<env, nread, cur, routed, deferred, restoring>>
  /\ UNCHANGED unchangedByClick
  /\ UNCHANGED symVars

\* the handler's child returns or is killed at the deadline; the result is logged
FinishHandler ==
  /\ ~exited /\ pcD = "child"
  /\ \E res \in ResultsOf(childD) : pcD' = "scan"
  /\ childD' = NoChild
  /\ UNCHANGED <<env, stdout, nread, cur, routed, deferred, restoring>>
  /\ UNCHANGED unchangedByClick
  /\ UNCHANGED symVars

\* handleClickEvents returns: the deferred functions run, last registered first.
\* os.Clearenv() of the next deferred function, or the return to the goroutine
RunDeferred ==
  /\ ~exited /\ pcD = "return"
  /\ IF deferred = <<>>
     THEN /\ pcD' = "triggered"
          /\ UNCHANGED <<env, deferred, restoring>>
     ELSE /\ env' = Clearenv(env)
          /\ restoring' = Head(deferred)
          /\ deferred' = Tail(deferred)
          /\ pcD' = "restore"
  /\ UNCHANGED <<stdout, nread, cur, routed, childD>>
  /\ UNCHANGED unchangedByClick
  /\ UNCHANGED symVars

\* for _, env := range oldEnv { os.Setenv(key, value) }
RestoreVar ==
  /\ ~exited /\ pcD = "restore"
  /\ IF restoring = <<>>
     THEN /\ pcD' = "return"
          /\ UNCHANGED <<env, restoring>>
     ELSE /\ env' = Setenv(env, Head(restoring)[1], Head(restoring)[2])
          /\ restoring' = Tail(restoring)
          /\ pcD' = pcD
  /\ UNCHANGED <<stdout, nread, cur, routed, deferred, childD>>
  /\ UNCHANGED unchangedByClick
  /\ UNCHANGED symVars

\* a goroutine that closes the array when the host goes away
ShutdownWriteClose == "]"

\* what the goroutine prints once handleClickEvents has returned
ShutdownWrite == "Triggered"

\* fmt.Printf("\nTriggered\n")
WriteTriggered ==
  /\ ~exited /\ pcD = "triggered"
  /\ stdout' = Append(stdout, Write(ShutdownWrite, "click", <<>>))
  /\ pcD' = "exit"
  /\ UNCHANGED <<env, nread, cur, routed, deferred, restoring, childD>>
  /\ UNCHANGED unchangedByClick
  /\ UNCHANGED symVars

\* a click goroutine that returns without os.Exit
ExitGoroutineOnly ==
  /\ ~exited /\ pcD = "exit"
  /\ exited' = FALSE
  /\ pcD' = "done"
  /\ UNCHANGED <<config, env, stdout, nread, cur, routed, deferred, restoring, childD>>
  /\ UNCHANGED mainVars
  /\ UNCHANGED symVars

\* os.Exit(0)
Exit ==
  /\ ~exited /\ pcD = "exit"
  /\ exited' = TRUE
  /\ pcD' = "done"
  /\ UNCHANGED <<config, env, stdout, nread, cur, routed, deferred, restoring, childD>>
  /\ UNCHANGED mainVars
  /\ UNCHANGED symVars

Next ==
  \/ WriteHeader
  \/ WriteOpen
  \/ StartDispatcher
  \/ Tick
  \/ StartBlock
  \/ FinishBlock
  \/ WriteComma
  \/ WriteSnapshot
  \/ InitialScan
  \/ ScanLine
  \/ ScanEnd
  \/ SaveEnviron
  \/ SetEventEnv
  \/ StartHandler
  \/ FinishHandler
  \/ RunDeferred
  \/ RestoreVar
  \/ WriteTriggered
  \/ Exit

Spec == Init /\ [][Next]_vars

\* the steps main takes by itself; the ticker fires every second
MainStep ==
  \/ WriteHeader
  \/ WriteOpen
  \/ StartDispatcher
  \/ Tick
  \/ StartBlock
  \/ FinishBlock
  \/ WriteComma
  \/ WriteSnapshot

\* the steps the click goroutine takes by itself; reading stdin waits for the host
DispatcherStep ==
  \/ SaveEnviron
  \/ SetEventEnv
  \/ StartHandler
  \/ FinishHandler
  \/ RunDeferred
  \/ RestoreVar
  \/ WriteTriggered
  \/ Exit

\* the Go scheduler runs every goroutine that can run
LiveSpec == Spec /\ WF_vars(MainStep) /\ WF_vars(DispatcherStep)

(***************************************************************************)
(* The Symbol Resolver by itself: a template with the optional arguments   *)
(* symArgs is executed for one block text after the other.                 *)
(***************************************************************************)
SymConfig == [MkConfig(<<BlockB>>) EXCEPT !.SymbolLists = ThemeLists]

SymInit ==
  /\ config = SymConfig
  /\ Startup
  /\ symArgs \in SymbolTails
  /\ symCall = NoCall
  /\ symPrev = NoCall
  /\ fmtCall = NoFmtCall
  /\ intOfNaN \in IntOfNaN

\* one execution of {{Symbol <value> <symArgs>}}
CallSymbol ==
  /\ \E value \in SymbolValues :
       symCall' = [called |-> TRUE, value |-> value,
                   out |-> Symbol(<<StringArg(value)>> \o symArgs, config)]
  /\ symPrev' = symCall
  /\ UNCHANGED <<config, env, stdout, exited, symArgs, fmtCall, intOfNaN>>
  /\ UNCHANGED mainVars
  /\ UNCHANGED clickVars

SymNext == CallSymbol

SymSpec == SymInit /\ [][SymNext]_vars

(***************************************************************************)
(* The routing of one record by itself: the host sends well-formed records *)
(* behind stray separators, and lines that are no records.                 *)
(***************************************************************************)
\* what a host puts in front of a record
RecordPrefixes == {<<>>, <<",">>, <<" ">>, <<",", " ">>, <<" ", ",">>, <<",", ",">>}

\* the well-formed records: one JSON object from '{' to '}'
BareRecords == {<<"{", tok, "}">> : tok \in EventTokens} \cup {<<"{", "}">>}

RecordLines == {p \o r : p \in RecordPrefixes, r \in BareRecords} \cup Lines

\* a second block named a: a Left handler that is a script, a Middle handler
\* with an interpreter of its own, and a Right handler that has a command
\* besides a script and an interpreter
BlockA2 ==
  MkBlock(<<"a">>, <<"sh">>, <<"cal">>, <<>>,
          [EmptyOutput EXCEPT !.FullText = <<"{{.Text}}">>],
          [b \in {"Left", "Middle", "Right"} |->
             IF b = "Left"
             THEN [Interpreter |-> <<>>, Script |-> <<"other">>, Command |-> <<>>]
             ELSE IF b = "Middle"
             THEN [Interpreter |-> <<"sh", " ", "-c">>, Script |-> <<"mid">>,
                   Command |-> <<>>]
             ELSE [Interpreter |-> <<"nosuch">>, Script |-> <<"r">>,
                   Command |-> <<"echo", " ", "4">>]])

\* the configurations whose records are routed: with unique and with shared names
RecConfigs ==
  Configs \cup {MkConfig(<<BlockA, BlockA2>>), MkConfig(<<BlockA2, BlockA>>),
                MkConfig(<<BlockB, BlockA2, BlockA>>)}

RecInit ==
  /\ config \in RecConfigs
  /\ Startup
  /\ symArgs = <<>>
  /\ symCall = NoCall
  /\ symPrev = NoCall
  /\ fmtCall = NoFmtCall
  /\ intOfNaN = 0

\* raw := scanner.Bytes() and the body of the loop up to the handler invocation
RouteRecord ==
  /\ \E line \in RecordLines :
       /\ cur' = line
       /\ routed' = Route(config, line)
  /\ childD' = NoChild
  /\ UNCHANGED <<config, env, stdout, exited, pcD, nread, deferred, restoring>>
  /\ UNCHANGED mainVars
  /\ UNCHANGED symVars

\* the handler invocation for the routed record: the interpreter is chosen and
\* executeCommand or executeScript starts the child
InvokeRouted ==
  /\ routed.verdict = "run" /\ ~childD.running
  /\ LET block == config.Blocks[routed.blk]
         h == block.MouseEvents[ButtonString(routed.ev.Button)]
     IN  /\ HandlerStartError(block, h, env) = ""
         /\ childD' = Spawn(routed.blk, HandlerArgv(block, h), "exits")
  /\ UNCHANGED <<config, env, stdout, exited, pcD, nread, cur, routed, deferred, restoring>>
  /\ UNCHANGED mainVars
  /\ UNCHANGED symVars

RecNext == RouteRecord \/ InvokeRouted

RecSpec == RecInit /\ [][RecNext]_vars

(***************************************************************************)
(* The Format Engine by itself: executeBlock of a block of the             *)
(* configuration whose child exited with status 0 and wrote a given text.  *)
(***************************************************************************)
\* what a child can write to its stdout
CapturedTexts ==
  { <<>>, <<" ">>, <<"4", "2">>, <<"4", "2", " ">>, <<" ", "4", "2">>, <<"4", " ", "2">>,
    <<"{{.Text}}">>, <<" ", "{{.Text}}", " ">>, <<"{{fail}}">>, <<"{{">>, <<"4", "{{", " ">> }

\* a block that configures a colour and no full_text
BlockC ==
  MkBlock(<<"c">>, <<>>, <<>>, <<"echo", " ", "4">>,
          [EmptyOutput EXCEPT !.Color = <<"#", "f">>], NoMouseEvents)

FmtConfigs == Configs \cup {MkConfig(<<BlockC>>), MkConfig(<<BlockC, BlockB>>)}

FmtInit ==
  /\ config \in FmtConfigs
  /\ Startup
  /\ symArgs = <<>>
  /\ symCall = NoCall
  /\ symPrev = NoCall
  /\ fmtCall = NoFmtCall
  /\ intOfNaN = 0

\* executeCommand / executeScript return the trimmed output, executeBlock renders
ExecuteBlockOn ==
  /\ \E b \in 1..NBlocks : \E o \in CapturedTexts :
       \E cmdOutput \in {TrimSpace(o)} :
         LET r == RenderBlock(config.Blocks[b], cmdOutput)
         IN  fmtCall' = [called |-> TRUE, blk |-> b, text |-> o,
                         err |-> r.err, output |-> r.output]
  /\ UNCHANGED <<config, env, stdout, exited, symArgs, symCall, symPrev, intOfNaN>>
  /\ UNCHANGED mainVars
  /\ UNCHANGED clickVars

FmtNext == ExecuteBlockOn

FmtSpec == FmtInit /\ [][FmtNext]_vars

(***************************************************************************)
(* Properties.                                                             *)
(***************************************************************************)
Snapshots == {i \in 1..Len(stdout) : stdout[i].kind = "snapshot"}

\* every block ran in tick t and none of them returned an error
TickClean(t) ==
  /\ \A b \in 1..NBlocks :
       \E i \in 1..Len(blockLog) : blockLog[i] = [tick |-> t, blk |-> b, err |-> ""]
  /\ \A i \in 1..Len(blockLog) : blockLog[i].tick = t => blockLog[i].err = ""

TickFailed(t) == \E i \in 1..Len(blockLog) : blockLog[i].tick = t /\ blockLog[i].err # ""

\* C1: a separator or a snapshot is on stdout for a tick only if every configured
\* block was executed and rendered without error in that tick; for a tick in
\* which a block failed main writes nothing, neither comma nor items.
C1_SnapshotOnlyForCleanTick ==
  /\ \A i \in 1..Len(stdout) :
       stdout[i].kind \in {",", "snapshot"} => TickClean(stdout[i].tick)
  /\ \A t \in 1..tick :
       TickFailed(t) =>
         \A i \in 1..Len(stdout) : stdout[i].who = "main" => stdout[i].tick # t

\* a tick whose first block succeeded and whose second block failed is over, and
\* another tick has put its snapshot on stdout
C1_Witness ==
  /\ pcM = "ticker"
  /\ \E t \in 1..tick :
       /\ \E i \in 1..Len(blockLog) : blockLog[i] = [tick |-> t, blk |-> 1, err |-> ""]
       /\ \E i \in 1..Len(blockLog) :
            blockLog[i].tick = t /\ blockLog[i].blk = 2 /\ blockLog[i].err # ""
  /\ Snapshots # {}

IsSchedulerWrite(w) == w.who = "main" /\ w.kind \notin {"header", "["}
SchedulerOut == SelectSeq(stdout, IsSchedulerWrite)

C3_NameIsBlockName ==
  \A i \in Snapshots :
    \A j \in 1..Len(stdout[i].items) :
      j <= NBlocks => stdout[i].items[j].Name = config.Blocks[j].Name

\* C4 (as claimed): whenever the Dispatcher is about to read a record, the process
\* environment is the one that existed before the handler invocations.
C4_EnvRestoredBeforeNextRecord == pcD = "scan" => env = StartupEnv

\* C5 (as claimed): no child started by runBlocks sees BUTTON, X or Y.
C5_BlockNeverSeesEventEnv ==
  childM.running =>
    /\ childM.env["BUTTON"] = Unset
    /\ childM.env["X"] = Unset
    /\ childM.env["Y"] = Unset

\* item is what executeBlock makes of block for some output of its child
DerivedFrom(item, block) ==
  \E o \in ChildOutputs :
    LET r == RenderBlock(block, TrimSpace(o)) IN r.err = "" /\ r.output = item

\* C6: every snapshot on stdout has exactly one item per configured block, the
\* j-th item derived from the j-th block.
C6_OneItemPerBlockInOrder ==
  \A i \in Snapshots :
    /\ Len(stdout[i].items) = NBlocks
    /\ \A j \in 1..NBlocks : DerivedFrom(stdout[i].items[j], config.Blocks[j])

\* a snapshot of a configuration with two different blocks is on stdout
C6_Witness ==
  /\ NBlocks = 2
  /\ config.Blocks[1] # config.Blocks[2]
  /\ \E i \in Snapshots : Len(stdout[i].items) = 2

\* C7: the first write to stdout is the header, the second the '[' line, neither
\* is written again, and both are there before the click goroutine is started,
\* before a tick is taken and before a block is executed.
C7_HeaderAndOpenFirst ==
  /\ Len(stdout) >= 1 => stdout[1].kind = "header"
  /\ Len(stdout) >= 2 => stdout[2].kind = "["
  /\ \A i \in 3..Len(stdout) : stdout[i].kind \notin {"header", "["}
  /\ (pcD # "off" \/ tick > 0 \/ blockLog # <<>> \/ childM.running \/ childD.running)
       => Len(stdout) >= 2

\* the click goroutine is reading stdin and a block's child is running
C7_Witness == pcD = "scan" /\ childM.running /\ Len(stdout) >= 2

\* C8: no write to stdout is the closing ']'.
C8_NeverClosed == \A i \in 1..Len(stdout) : stdout[i].kind # "]"

\* the process has exited on the end of stdin, after a failed tick and a snapshot
C8_Witness == exited /\ errlog # <<>> /\ Snapshots # {}

HandlerPositions == {"environ", "setenv BUTTON", "setenv X", "setenv Y", "exec", "child"}

\* the record decodes to an event, some block has the event's name, and the first
\* such block registers a handler for the event's button
NamesBlockAndHandler(raw) ==
  LET p == NewEventFromRaw(raw)
      named == {i \in 1..NBlocks : config.Blocks[i].Name = p.ev.Name}
  IN  /\ p.err = ""
      /\ named # {}
      /\ ButtonString(p.ev.Button) \in DOMAIN config.Blocks[SetMin(named)].MouseEvents

\* the record decodes to an event that misses: no block of that name, or no
\* handler for the button on the matched block
RoutingMiss(raw) == NewEventFromRaw(raw).err = "" /\ ~NamesBlockAndHandler(raw)

\* C9: a handler invocation is under way only for a record that names a block
\* and a button registered on it; the step that reads a record that misses leaves
\* the Dispatcher at the read of the next record, with no child and the
\* environment untouched.
C9_MissNeverSpawns ==
  /\ [](pcD \in HandlerPositions \/ childD.running => NamesBlockAndHandler(cur))
  /\ [][(pcD = "scan" /\ nread' = nread + 1 /\ RoutingMiss(cur'))
          => (pcD' = "scan" /\ childD' = NoChild /\ env' = env /\ exited' = exited)]_vars

\* a record that misses has been read after the initial line, and the Dispatcher
\* is back at the read with lines still to come
C9_Witness == nread >= 2 /\ nread < MaxLines /\ RoutingMiss(cur) /\ pcD = "scan" /\ ~exited

\* the record is empty, a bare comma, or does not decode to an event
Malformed(raw) == TrimSpace(raw) = <<>> \/ raw = <<",">> \/ NewEventFromRaw(raw).err # ""

\* C10: the step that reads a malformed or empty record, as first line or later,
\* leaves the Dispatcher at the read of the next record: no child, no exit, the
\* environment untouched.
C10_MalformedNeverFatal ==
  [][(pcD \in {"initial", "scan"} /\ nread' = nread + 1 /\ Malformed(cur'))
       => (pcD' = "scan" /\ childD' = NoChild /\ env' = env /\ exited' = exited)]_vars

\* a record that does not parse has been read after the initial line, and the
\* Dispatcher is back at the read with lines still to come
C10_Witness ==
  /\ nread >= 2 /\ nread < MaxLines
  /\ NewEventFromRaw(cur).err # "" /\ TrimSpace(cur) # <<>>
  /\ pcD = "scan" /\ ~exited /\ childD = NoChild

\* C11: once stdin has ended (the scanner loop of handleClickEvents is over, so
\* the record in progress has been handled) the process eventually exits,
\* whatever main is doing, and after the exit main takes no step and nothing is
\* written: no tick runs.
C11_EofTerminates ==
  /\ (pcD = "return") ~> exited
  /\ [][exited => UNCHANGED <<mainVars, stdout, env>>]_vars

\* the process has exited while a block's child of a tick was running
C11_Witness == exited /\ pcM = "child" /\ childM.running /\ tick >= 1

\* the writes of the streaming protocol: the header line, the '[' line, the
\* separators and the snapshots
ProtocolKinds == {"header", "[", ",", "snapshot"}

\* C17 (as claimed): everything written to stdout is part of the streaming
\* protocol.
C17_OnlyProtocolOnStdout == \A i \in 1..Len(stdout) : stdout[i].kind \in ProtocolKinds

\* the error of tick t is in the log
Logged(t) == \E i \in 1..Len(errlog) : errlog[i].tick = t

\* the snapshot of tick t is on stdout
Emitted(t) == \E i \in Snapshots : stdout[i].tick = t

\* C18: a tick with a failed block has its error in the log and leaves main at
\* the ticker, where the next tick is accepted and runs the blocks from the
\* first one; a later tick whose blocks all succeeded has its snapshot on stdout
\* once main is back at the ticker; the process exits only through the click
\* goroutine's shutdown.
C18_ErrorNeverStopsScheduler ==
  /\ \A t \in 1..tick : TickFailed(t) => Logged(t)
  /\ (tick >= 1 /\ TickFailed(tick)) => pcM = "ticker"
  /\ (~exited /\ pcM = "ticker" /\ tick < MaxTicks) => ENABLED Tick
  /\ \A t \in 1..tick : (TickClean(t) /\ (t < tick \/ pcM = "ticker")) => Emitted(t)
  /\ exited => pcD = "done"

\* tick 1 was skipped on an error and tick 2 emitted its snapshot
C18_Witness ==
  /\ tick = 2 /\ pcM = "ticker" /\ ~exited
  /\ TickFailed(1) /\ Logged(1) /\ ~Emitted(1)
  /\ TickClean(2) /\ Emitted(2)

\* a block of the configuration has an entry under mouse_events
DeclaresHandler ==
  \E i \in 1..NBlocks :
    \E b \in {"Left", "Middle", "Right"} : HandlerExists(config.Blocks[i], b)

\* C20: the header's click_events flag is true exactly when some block
\* declares a mouse handler, and the click goroutine is started (by the go
\* statement, after the '[' line) exactly then; with no handler declared no
\* line of stdin is read, no handler child exists, nothing is written at
\* shutdown and the process never exits.
C20_DispatcherIffHandler ==
  /\ \A i \in 1..Len(stdout) :
       stdout[i].kind = "header" => (stdout[i].flag <=> DeclaresHandler)
  /\ pcD # "off" => DeclaresHandler
  /\ (DeclaresHandler /\ pcM \notin {"header", "open", "go"}) => pcD # "off"
  /\ ~DeclaresHandler =>
       /\ nread = 0 /\ cur = <<>> /\ childD = NoChild /\ deferred = <<>>
       /\ ~exited
       /\ \A i \in 1..Len(stdout) : stdout[i].who = "main"

\* no block declares a handler: the header says false, all ticks have run, and
\* the click goroutine was never started
C20_Witness ==
  /\ ~DeclaresHandler /\ tick = MaxTicks /\ pcM = "ticker" /\ Snapshots # {}
  /\ stdout[1].kind = "header" /\ ~stdout[1].flag
  /\ pcD = "off"

\* C19 (as claimed): a call that has started a child returns, by the deadline
\* at the latest: main's executeBlock returns unless the process exits first,
\* and the click goroutine's handler call returns.
C19_StartedCallsReturn ==
  /\ childM.running ~> (~childM.running \/ exited)
  /\ childD.running ~> ~childD.running

(***************************************************************************)
(* Properties of the Symbol Resolver.                                      *)
(***************************************************************************)
\* the call returned from a value that parsed as a number
Resolved(c) == c.called /\ c.out.parsed

\* the list the call indexed: the symbol list up to 100, the overflow list above
SelectedList(c) ==
  IF c.out.number <= 100 * c.out.scale THEN c.out.symbols ELSE c.out.over

\* C12 (as claimed): for a numeric value the computed index is within the
\* selected list and the call returns the element at that index.
C12_IndexInRange ==
  Resolved(symCall) =>
    /\ ~symCall.out.panic
    /\ symCall.out.index \in 0..(Len(SelectedList(symCall)) - 1)
    /\ symCall.out.glyph = SelectedList(symCall)[symCall.out.index + 1]

\* the effective value of the call is within [0, 100]
InRamp(c) ==
  Resolved(c) /\ c.out.number >= 0 /\ c.out.number <= 100 * c.out.scale

FloorIndex(number, scale, len) == (number * (len - 1)) \div (100 * scale)

\* the index of the claim for the call
ClaimedIndex(c) ==
  LET len == Len(SelectedList(c))
      floor == FloorIndex(c.out.number, c.out.scale, len)
  IN  IF c.out.number <= 100 * c.out.scale THEN floor
      ELSE IF floor < len - 1 THEN floor ELSE len - 1

\* C14 (as claimed): for every numeric value the call returns the element of
\* the selected list at floor((effective / 100) * (len - 1)), capped at the
\* last position above 100, the scale being 1 when no argument gives one.
C14_IndexFormula ==
  Resolved(symCall) =>
    /\ Len(symArgs) < 2 => symCall.out.scale = 1
    /\ ~symCall.out.panic
    /\ ClaimedIndex(symCall) \in 0..(Len(SelectedList(symCall)) - 1)
    /\ symCall.out.glyph = SelectedList(symCall)[ClaimedIndex(symCall) + 1]

\* the text is an optional '-' followed by digits, or the infinity
NumericText(s) ==
  \/ s = <<"Inf">>
  \/ /\ s # <<>>
     /\ \A i \in 1..Len(s) : s[i] \in DigitSet \/ (i = 1 /\ s[i] = "-")
     /\ s # <<"-">>

\* C15: a value that, without a trailing '%' and the whitespace around it, is
\* not a number makes the call return "?" whatever the other arguments are,
\* and the template action inserts "?" without an error.
C15_UnparsableGivesQuestionMark ==
  (symCall.called /\ ~NumericText(TrimSpace(TrimSuffix(symCall.value, "%")))) =>
    /\ ~symCall.out.panic
    /\ symCall.out.glyph = "?"
    /\ SymbolAction(<<StringArg(symCall.value)>> \o symArgs, config)
         = [err |-> "", text |-> <<"?">>]

\* "abc" was resolved by a template that names a list, an overflow list and a scale
C15_Witness ==
  /\ symCall.called /\ symCall.value = <<"a", "b", "c">> /\ symCall.out.glyph = "?"
  /\ Len(symArgs) = 3 /\ symArgs[1] = StringArg(<<"battery">>)

\* the list the claim selects for the argument at position pos of symArgs
ClaimedList(pos, default) ==
  IF Len(symArgs) < pos THEN default
  ELSE LET arg == symArgs[pos]
           named == FindSymbolList(config, arg.str)
       IN  IF arg.type \in {"[]string", "[]interface {}"}
           THEN IF arg.list = <<>> THEN default ELSE arg.list
           ELSE IF arg.type = "string" /\ named.found /\ named.symbols # <<>>
           THEN named.symbols
           ELSE default

\* C16 (as claimed): the symbol list and the overflow list of a call are the
\* built-in ramps when the argument is absent, an empty list, a name that is
\* not configured or the name of an empty list, and the supplied or named list
\* otherwise.
C16_ListSelection ==
  Resolved(symCall) =>
    /\ symCall.out.symbols = ClaimedList(1, defaultSymbols)
    /\ symCall.out.over = ClaimedList(2, defaultOver100Symbols)

(***************************************************************************)
(* Properties of the click goroutine against the bar.                      *)
(***************************************************************************)
\* the call of a handler ends: it could not be started, or its child returned
HandlerCallEnds == pcD \in {"exec", "child"} /\ pcD' = "scan"

\* C21: the step in which a handler's call ends, with output, with an error or
\* killed at the deadline, writes nothing to stdout and leaves main where it
\* was: the ticker, the tick under way, the collected outputs, the error log
\* and the first-snapshot flag are unchanged.
C21_HandlerResultNotPropagated ==
  [][HandlerCallEnds => UNCHANGED <<stdout, mainVars, exited>>]_vars

\* a handler's call has returned while the bar was being written
C21_Witness ==
  /\ pcD = "scan" /\ routed.verdict = "run" /\ ~childD.running
  /\ Snapshots # {} /\ tick < MaxTicks /\ ~exited

\* C22: a well-formed record behind stray commas and whitespace is
\* pre-processed to the record itself and routed to the same verdict, block
\* and event as the record without the prefix; pre-processing a bare record
\* returns it unchanged.
C22_PrefixIsIgnored ==
  \A p \in RecordPrefixes : \A r \in BareRecords :
    cur = p \o r =>
      /\ Preprocess(cur) = r
      /\ Preprocess(r) = r
      /\ routed = Route(config, r)

\* a record behind a comma and a space reached its handler
C22_Witness ==
  /\ cur = <<",", " ", "{", "a-left", "}">>
  /\ routed.verdict = "run" /\ routed.ev = EventOf("a-left")

(***************************************************************************)
(* Properties of the configuration and of the Format Engine.               *)
(***************************************************************************)
\* some block of the configuration sets output.name
SetsName == \E b \in 1..NBlocks : config.Blocks[b].Output.Name # <<>>

\* C23 (as claimed): a configuration in which a block's output sets the name
\* field is refused at startup: nothing of the bar is written to stdout and no
\* block is ever run.
C23_NameSetIsFatal == SetsName => stdout = <<>> /\ ~childM.running /\ blockLog = <<>>

\* the text holds a template action
HasAction(t) == \E i \in 1..Len(t) : t[i] \in {"{{.Text}}", "{{fail}}", "{{"}

\* the item is what the block's configured fields render to for the text
RenderedFrom(item, block, text) ==
  \A f \in TextFields :
    HasAction(WithName(block)[f]) => item[f] = Rendered(WithName(block)[f], text)

\* C24 (as claimed): in every emitted snapshot every field of an item that is
\* configured with template syntax, whatever field it is, is the rendering of
\* that template against the text captured from the block's child.
C24_EveryFieldRendered ==
  \A s \in Snapshots : \A b \in 1..Len(stdout[s].items) :
    \E o \in ChildOutputs :
      RenderedFrom(stdout[s].items[b], config.Blocks[b], TrimSpace(o))

\* the block's full_text template is the captured text and nothing else
IdentityTemplate(block) == block.Output.FullText = <<"{{.Text}}">>

\* C25: for a block whose full_text template is the captured text, full_text
\* of the rendered item is the captured text without its leading and trailing
\* whitespace, template syntax in it included; whether the call fails does not
\* depend on the captured text.
C25_IdentityRendersTrimmedText ==
  fmtCall.called /\ IdentityTemplate(config.Blocks[fmtCall.blk]) =>
    /\ fmtCall.err = RenderBlock(config.Blocks[fmtCall.blk], <<>>).err
    /\ fmtCall.err = "" => fmtCall.output.FullText = TrimSpace(fmtCall.text)

\* a captured text that reads like a template was rendered as it is
C25_Witness ==
  /\ fmtCall.called /\ IdentityTemplate(config.Blocks[fmtCall.blk])
  /\ fmtCall.text = <<" ", "{{.Text}}", " ">>
  /\ fmtCall.err = "" /\ fmtCall.output.FullText = <<"{{.Text}}">>

(***************************************************************************)
(* Properties of the Process Runner calls.                                 *)
(***************************************************************************)
\* a call of executeBlock returns in this step
BlockCallEnds == Len(blockLog') > Len(blockLog)

\* a child of main, of the click goroutine, is started in this step
SpawnsM == childM'.running /\ ~childM.running
SpawnsD == childD'.running /\ ~childD.running

\* C26 (as claimed): every call of the runner, for a block or for a handler,
\* has spawned a child when it returns.
C26_ExactlyOneChildPerCall ==
  [][/\ BlockCallEnds => childM.running
     /\ HandlerCallEnds => childD.running]_vars

\* C26 (amended): a call of the runner spawns at most one child, none when it
\* fails before the start (no interpreter, program not found); a child is
\* started only by a call for a block not yet called in this tick, or for a
\* record just read; a running child is never replaced; and no block is
\* called twice in a tick.
C26_AtMostOneChildNoRetry ==
  [][/\ BlockCallEnds => childM.running \/ (pcM = "block" /\ ~childM'.running)
     /\ SpawnsM => /\ pcM = "block" /\ pcM' = "child"
                   /\ \A i \in 1..Len(blockLog) :
                        ~(blockLog[i].tick = tick /\ blockLog[i].blk = bi)
     /\ childM.running => childM' = childM \/ (~childM'.running /\ BlockCallEnds)
     /\ \A i, j \in 1..Len(blockLog') :
          blockLog'[i].tick = blockLog'[j].tick /\ blockLog'[i].blk = blockLog'[j].blk
            => i = j
     /\ HandlerCallEnds => childD.running \/ (pcD = "exec" /\ ~childD'.running)
     /\ SpawnsD => pcD = "exec" /\ pcD' = "child"
     /\ childD.running => childD' = childD \/ (~childD'.running /\ HandlerCallEnds)
     /\ pcD' = "environ" /\ pcD # "environ" => nread' = nread + 1
     /\ pcD \in {"exec", "child"} => pcD' \in {pcD, "child", "scan"}]_vars

\* one call failed before it could start a child, another one returned after
\* its child had run
C26_Witness ==
  /\ \E i \in 1..Len(blockLog) : blockLog[i].err = "Interpreter not specified"
  /\ \E i \in 1..Len(blockLog) : blockLog[i].err = "" /\ blockLog[i].tick = 2
  /\ tick = MaxTicks

\* the calls of executeBlock are logged tick after tick, block after block
BlocksInOrder ==
  \A i, j \in 1..Len(blockLog) :
    i < j => \/ blockLog[i].tick < blockLog[j].tick
             \/ blockLog[i].tick = blockLog[j].tick /\ blockLog[i].blk < blockLog[j].blk

\* the snapshots on stdout carry increasing ticks
SnapshotsInTickOrder ==
  \A i, j \in Snapshots : i < j => stdout[i].tick < stdout[j].tick

\* C27: main waits for the one child it started and the click goroutine for
\* the one it started; the blocks of a tick are called in declaration order,
\* every call of a tick before the first of the next; a tick is taken only
\* when runBlocks is not under way; snapshots are written in tick order; and
\* a line is read only when no handler child is running.
C27_UnitsAreSequential ==
  /\ [](/\ childM.running => pcM = "child" /\ childM.blk = bi
        /\ childD.running => pcD = "child"
        /\ BlocksInOrder
        /\ SnapshotsInTickOrder)
  /\ [][/\ tick' # tick => pcM = "ticker" /\ ~childM.running /\ outputs = <<>>
        /\ SpawnsM => ~childM.running /\ bi' = bi
        /\ nread' # nread => ~childD.running /\ pcD \in {"initial", "scan"}]_vars

\* the child of the second block of the second tick runs, after both blocks of
\* the first tick were called and their snapshot was written
C27_Witness ==
  /\ tick = 2 /\ childM.running /\ childM.blk = 2 /\ Snapshots # {}
  /\ Len(blockLog) = 3

(***************************************************************************)
(* Properties of the process environment.                                  *)
(***************************************************************************)
\* C28: the environment a handler child was started with has BUTTON, X and Y
\* of the event decoded from the line being handled, whatever earlier records
\* left in the environment.
C28_HandlerSeesItsEvent ==
  childD.running =>
    LET ev == NewEventFromRaw(cur).ev
    IN  /\ childD.env["BUTTON"] = ButtonString(ev.Button)
        /\ childD.env["X"] = ToString(ev.X)
        /\ childD.env["Y"] = ToString(ev.Y)

\* the handler of a second click runs, at other coordinates than the first,
\* whose variables were still set when it was read
C28_Witness ==
  /\ childD.running /\ Len(deferred) = 2
  /\ cur = <<",", "{", "a-left2", "}">>
  /\ deferred[1] = <<<<"PATH", "/bin">>, <<"BUTTON", "Left">>, <<"X", "3">>, <<"Y", "4">>>>

\* main leaves the start of a block: the interpreter or program was looked up
\* on PATH and, when found, the child was started with a copy of the environment
BlockStarts == pcM = "block" /\ pcM' # "block"

\* every variable of the startup environment has its startup value
HasStartupValues(e) ==
  \A k \in EnvKeySet : IsSetIn(StartupEnv, k) => e[k] = StartupEnv[k]

\* C29 (as claimed): whenever main looks up an interpreter or starts a block's
\* child, every variable of the startup environment has its startup value.
C29_SchedulerSeesStartupEnv ==
  [][BlockStarts => HasStartupValues(env)]_vars

(***************************************************************************)
(* Properties of a failed tick.                                            *)
(***************************************************************************)
\* the calls of tick t that returned an error, the errors main logged for t
FailedCalls(t) == {i \in 1..Len(blockLog) : blockLog[i].tick = t /\ blockLog[i].err # ""}
LoggedErrors(t) == {i \in 1..Len(errlog) : errlog[i].tick = t}

\* C30: a tick in which a block failed has exactly one failed call and exactly
\* one logged error, the error of that call; every block declared before the
\* failed one was called and succeeded, and no block declared after it was
\* called in that tick.
C30_OneErrorFirstFailure ==
  \A t \in 1..tick :
    TickFailed(t) =>
      /\ Cardinality(FailedCalls(t)) = 1
      /\ Cardinality(LoggedErrors(t)) = 1
      /\ \A i \in FailedCalls(t) :
           /\ \A j \in LoggedErrors(t) : errlog[j].err = blockLog[i].err
           /\ \A b \in 1..(blockLog[i].blk - 1) :
                \E k \in 1..Len(blockLog) :
                  blockLog[k] = [tick |-> t, blk |-> b, err |-> ""]
           /\ \A k \in 1..Len(blockLog) :
                blockLog[k].tick = t => blockLog[k].blk <= blockLog[i].blk

\* in both ticks the first of two blocks failed on its template and the second
\* block was not called
C30_Witness ==
  /\ NBlocks = 2 /\ tick = 2 /\ pcM = "ticker"
  /\ Len(errlog) = 2 /\ Len(blockLog) = 2
  /\ blockLog[1].blk = 1 /\ blockLog[2].blk = 1
  /\ blockLog[1].err = "failed to execute template"

(***************************************************************************)
(* Properties of the routing and of the runner calls.                      *)
(***************************************************************************)
\* the blocks that carry the name
BlocksNamed(name) == {i \in 1..NBlocks : config.Blocks[i].Name = name}

\* the block has a handler for the button that has a script or a command
Handles(block, button) ==
  /\ HandlerExists(block, ButtonString(button))
  /\ \/ block.MouseEvents[ButtonString(button)].Script # <<>>
     \/ block.MouseEvents[ButtonString(button)].Command # <<>>

\* the record was decoded to an event
Decoded == routed.verdict \notin {"", "Skipping empty line", "Skipping comma",
                                  "Error parsing click event"}

\* C31: an event whose name is carried by several blocks is routed to the
\* first of them in declaration order: it reaches a handler exactly when that
\* block handles its button, whatever the later blocks of that name handle.
C31_FirstSameNamedBlock ==
  Decoded /\ BlocksNamed(routed.ev.Name) # {} =>
    LET firstBlk == SetMin(BlocksNamed(routed.ev.Name))
    IN  /\ routed.blk = firstBlk
        /\ routed.verdict = "run" <=> Handles(config.Blocks[firstBlk], routed.ev.Button)

\* a Right click on name a is dropped: the Right handler of the first block
\* named a is empty, the second block's has a command
C31_Witness ==
  /\ Cardinality(BlocksNamed(<<"a">>)) = 2
  /\ cur = <<"{", "a-right", "}">>
  /\ routed.blk = SetMin(BlocksNamed(<<"a">>)) /\ routed.verdict # "run"
  /\ Handles(config.Blocks[SetMax(BlocksNamed(<<"a">>))], routed.ev.Button)

\* the errors executeScript returns about the interpreter
InterpreterErrors ==
  {"Interpreter not specified", "Interpreter format is invalid", "Interpreter does not exist"}

\* the words of a text, one argument each
ArgvOfWords(s) == [i \in 1..Len(Fields(s)) |-> <<Fields(s)[i]>>]

\* C32: the child of a block with a command has the words of the command as
\* its argv and the call never fails on the interpreter, whatever interpreter
\* and script the block has; the child of a block without command has the
\* words of the interpreter followed by the whole script as one last argument,
\* and without interpreter the call fails.
C32_CommandBeforeScript ==
  /\ childM.running =>
       LET block == config.Blocks[childM.blk]
       IN  IF block.Command # <<>>
           THEN childM.argv = ArgvOfWords(block.Command)
           ELSE childM.argv = ArgvOfWords(block.Interpreter) \o <<block.Script>>
  /\ \A i \in 1..Len(blockLog) :
       LET block == config.Blocks[blockLog[i].blk]
       IN  /\ block.Command # <<>> => blockLog[i].err \notin InterpreterErrors
           /\ block.Command = <<>> /\ block.Interpreter = <<>>
                => blockLog[i].err = "Interpreter not specified"

\* the child of a block that has a command, a script and an interpreter that
\* is not installed runs
C32_Witness ==
  /\ childM.running
  /\ config.Blocks[childM.blk].Command # <<>>
  /\ config.Blocks[childM.blk].Script # <<>>
  /\ config.Blocks[childM.blk].Interpreter = <<"nosuch">>
  /\ childM.argv = <<<<"echo">>, <<"4">>>>

\* the handler the routed event selects in the routed block
RoutedHandler == config.Blocks[routed.blk].MouseEvents[ButtonString(routed.ev.Button)]

\* C33: the child of a handler with a command has the words of the command as
\* argv; the child of a script handler has the words of the handler's own
\* interpreter, of the block's interpreter when the handler has none, followed
\* by the script; a registered handler with neither script nor command is
\* dropped and no child is started for it.
C33_HandlerInterpreter ==
  /\ childD.running =>
       LET block == config.Blocks[childD.blk]
           h == RoutedHandler
       IN  /\ childD.blk = routed.blk
           /\ IF h.Command # <<>>
              THEN childD.argv = ArgvOfWords(h.Command)
              ELSE IF h.Interpreter # <<>>
              THEN childD.argv = ArgvOfWords(h.Interpreter) \o <<h.Script>>
              ELSE childD.argv = ArgvOfWords(block.Interpreter) \o <<h.Script>>
  /\ ( /\ Decoded /\ routed.blk # 0
       /\ HandlerExists(config.Blocks[routed.blk], ButtonString(routed.ev.Button))
       /\ RoutedHandler.Script = <<>> /\ RoutedHandler.Command = <<>> )
     => routed.verdict = "No mouse event script or command" /\ ~childD.running

\* the child of a handler with an interpreter of its own, other than the block's
C33_Witness ==
  /\ childD.running
  /\ RoutedHandler.Interpreter = <<"sh", " ", "-c">>
  /\ config.Blocks[childD.blk].Interpreter = <<"sh">>
  /\ childD.argv = <<<<"sh">>, <<"-c">>, <<"mid">>>>

\* the first word of the interpreter is not an installed program
LauncherMissing(interpreter) ==
  Fields(interpreter) # <<>> /\ Fields(interpreter)[1] \notin Installed

\* the call for the routed handler is script-style and its launcher is missing
HandlerLauncherMissing ==
  /\ pcD = "exec" /\ RoutedHandler.Command = <<>>
  /\ LauncherMissing(HandlerInterpreter(config.Blocks[routed.blk], RoutedHandler))

\* C34: the call of a script block without interpreter returns the
\* interpreter-missing error and that of one whose launcher is not installed
\* the interpreter-not-found error; the error is logged for the tick and the
\* tick has no snapshot.  The call of a script handler whose launcher is not
\* installed starts no child and returns the click goroutine to the read of
\* the next line, with stdout and main unchanged.
C34_InterpreterErrors ==
  /\ [](\A i \in 1..Len(blockLog) :
          LET block == config.Blocks[blockLog[i].blk]
              failed == /\ blockLog[i].err # ""
                        /\ \E j \in 1..Len(errlog) :
                             errlog[j] = [tick |-> blockLog[i].tick, err |-> blockLog[i].err]
                        /\ ~Emitted(blockLog[i].tick)
          IN  block.Command = <<>> =>
                /\ block.Interpreter = <<>>
                     => blockLog[i].err = "Interpreter not specified" /\ failed
                /\ LauncherMissing(block.Interpreter)
                     => blockLog[i].err = "Interpreter does not exist" /\ failed)
  /\ [][HandlerLauncherMissing /\ pcD' # pcD =>
          /\ HandlerStartError(config.Blocks[routed.blk], RoutedHandler, env)
               = "Interpreter does not exist"
          /\ pcD' = "scan" /\ ~childD'.running
          /\ UNCHANGED <<stdout, mainVars, exited>>]_vars

\* the handler of a Middle click could not be started and the click goroutine
\* is back at the read of the next line, the bar still running
C34_Witness ==
  /\ pcD = "scan" /\ routed.verdict = "run" /\ cur = <<"{", "a-middle", "}">>
  /\ LauncherMissing(RoutedHandler.Interpreter)
  /\ ~exited /\ nread < MaxLines /\ tick >= 1

(***************************************************************************)
(* Properties of the cadence.                                              *)
(***************************************************************************)
\* the blocks called in tick t
CalledIn(t) == {blockLog[i].blk : i \in {k \in 1..Len(blockLog) : blockLog[k].tick = t}}

\* runBlocks of tick t has returned
TickOver(t) == t < tick \/ (t = tick /\ pcM \in {"ticker", "emit", "snapshot"})

\* the configuration with every interval set to the same value
WithoutIntervals(cfg) ==
  [cfg EXCEPT !.Blocks = [b \in 1..Len(cfg.Blocks) |-> [cfg.Blocks[b] EXCEPT !.Interval = 1]]]

\* C35: whatever the interval values, every tick calls the blocks from the
\* first one on, all of them unless one fails, and every item of a snapshot is
\* the one the same block yields with another interval value; the
\* configurations that differ only in intervals have the same block calls and
\* snapshots.
C35_IntervalIgnored ==
  /\ \A t \in 1..tick :
       TickOver(t) =>
         /\ \E n \in 1..NBlocks : CalledIn(t) = 1..n
         /\ ~TickFailed(t) => CalledIn(t) = 1..NBlocks /\ (t < tick \/ pcM = "ticker" => Emitted(t))
  /\ \A s \in Snapshots : \A b \in 1..Len(stdout[s].items) :
       DerivedFrom(stdout[s].items[b], WithoutIntervals(config).Blocks[b])
  /\ \A b \in 1..NBlocks :
       /\ BlockArgv(config.Blocks[b]) = BlockArgv(WithoutIntervals(config).Blocks[b])
       /\ BlockStartError(config.Blocks[b], env)
            = BlockStartError(WithoutIntervals(config).Blocks[b], env)

\* with intervals 5 and 0 both ticks called both blocks and wrote a snapshot
C35_Witness ==
  /\ config.Blocks[1].Interval = 5 /\ config.Blocks[2].Interval = 0
  /\ tick = 2 /\ pcM = "ticker"
  /\ CalledIn(1) = {1, 2} /\ CalledIn(2) = {1, 2}
  /\ Cardinality(Snapshots) = 2

(***************************************************************************)
(* Properties of the overflow ramp of the Symbol Resolver.                 *)
(***************************************************************************)
\* C36 (as claimed): for every effective value above 100 the call returns the
\* last element of the overflow list, whatever the list is.
C36_OverflowAlwaysLast ==
  (Resolved(symCall) /\ symCall.out.number > 100 * symCall.out.scale) =>
    /\ ~symCall.out.panic
    /\ symCall.out.glyph = symCall.out.over[Len(symCall.out.over)]

\* C37: the first line of stdin is read and dropped: reading it routes nothing
\* and starts nothing, whatever it holds, so a handler only ever runs for the
\* second line or a later one; every later line is routed by the loop.
C37_FirstLineNotDispatched ==
  /\ [](childD.running => nread >= 2)
  /\ [][/\ pcD = "initial" =>
            /\ pcD' \in {"initial", "scan", "return"}
            /\ routed'.verdict # "run" /\ routed'.blk = 0
            /\ childD' = childD /\ env' = env
        /\ (nread >= 1 /\ nread' = nread + 1) =>
            /\ routed' = Route(config, cur')
            /\ pcD' = AfterRoute(routed'.verdict)]_vars

\* C37's case: the only line read so far is a record that the loop would have
\* run a handler for, and the Dispatcher waits for the next line.
C37_Witness ==
  /\ nread = 1 /\ pcD = "scan" /\ ~childD.running
  /\ Route(config, cur).verdict = "run"

\* C38 (as claimed): every "," on stdout is directly followed by a snapshot
\* array, and the process never exits with a "," as the last thing written.
C38_CommaThenSnapshot ==
  \A i \in 1..Len(stdout) :
    stdout[i].kind = "," =>
      IF i < Len(stdout) THEN stdout[i + 1].kind = "snapshot" ELSE ~exited

\* the fields of an item that the configuration gives a template for (the name
\* is not one of them: executeBlock sets it from the block)
TemplatedFields == TextFields \ {"Name"}

\* C39: when executeBlock returns an item, every field whose configured
\* template is empty is empty in the item, whatever text the child wrote; so a
\* block without full_text template gets the full_text "".
C39_EmptyTemplateStaysEmpty ==
  (fmtCall.called /\ fmtCall.err = "") =>
    \A f \in TemplatedFields :
      config.Blocks[fmtCall.blk].Output[f] = <<>> => fmtCall.output[f] = <<>>

\* C39's case: a block without full_text template was rendered on a text that
\* is not empty after trimming.
C39_Witness ==
  /\ fmtCall.called /\ fmtCall.err = ""
  /\ config.Blocks[fmtCall.blk].Output.FullText = <<>>
  /\ TrimSpace(fmtCall.text) # <<>>
  /\ fmtCall.output.FullText = <<>>

\* Scan returned false because of a read error, not at end of stream
ReadError == routed.verdict = "Error reading stdin"

\* C40: after a read error on stdin the Dispatcher is on its way out as after
\* end of stream: it reads no further line, routes nothing and starts no
\* handler, and the process eventually exits through os.Exit(0).
C40_ReadErrorEndsLikeEof ==
  /\ [](ReadError => pcD \in {"return", "restore", "triggered", "exit", "done"})
  /\ [][ReadError => /\ nread' = nread /\ cur' = cur /\ routed' = routed
                      /\ childD' = childD]_vars
  /\ ReadError ~> (exited /\ pcD = "done")

\* C40's case: the process has exited after a read error that came when more
\* lines could still have been read.
C40_Witness == ReadError /\ exited /\ nread >= 1 /\ nread < MaxLines

====
